---- MODULE Spec2Model ----
(***************************************************************************)
(* The HTTP tunnel listener of transport/internet/http/hub.go as a state   *)
(* machine: one Listener (Listen, its startup goroutine, Close), the       *)
(* requests its server hands to Listener.ServeHTTP, and for every accepted *)
(* request the synthesized Connection, whose write side is a flushWriter   *)
(* over the response writer and whose close fires the done signal.         *)
(***************************************************************************)
EXTENDS Integers, Sequences, FiniteSets, TLC

\* ------------------------------------------------------------------ bounds

MaxReqs == 2      \* requests served concurrently
MaxWriters == 2   \* goroutines of the handler side writing to one Connection
MaxCalls == 2     \* flushWriter.Write calls per Connection
MaxCloses == 2    \* Listener.Close() calls
MaxLen == 1       \* length of the payload of one Write call
MaxWorkers == 2   \* Workers that exist
MaxPicks == 3     \* PickAvailable calls

Reqs == 1..MaxReqs
Writers == 1..MaxWriters
Lens == 1..MaxLen
Workers == 1..MaxWorkers

\* ------------------------------------------------------------------ inputs

\* Strings the code compares character by character are sequences of characters.
Hosts == {"example.com", "other.com"}
HostSets == {{}, {"example.com"}, {"example.com", "other.com"}}
CfgPaths == {<<>>, <<"/", "t">>, <<"t">>, <<"/", "t", "/">>}
ReqPaths == {<<"/">>, <<"/", "t">>, <<"/", "t", "/">>, <<"/", "t", "/", "x">>,
             <<"/", "t", "x">>}

\* request.RemoteAddr as the transport reports it: host and port text; a Unix
\* peer ("@") has no port part.
RemoteAddrs == {[host |-> "10.0.0.1", port |-> 4000], [host |-> "@", port |-> -1]}
\* The X-Forwarded-For header: absent (<<>>) or a list of entries.
Forwardeds == {<<>>, <<"192.0.2.7">>, <<"unknown">>, <<"unknown", "192.0.2.7">>}

NoAddr == [ip |-> "", port |-> -1]

\* ------------------------------------------------------------------ state

VARIABLES
  \* the Listener and its server
  gpc,         \* the startup goroutine: none, bind, record, serve, serving, failed, exited
  bound,       \* internet.ListenSystem in the goroutine: "no" (not yet), "ok", "err"
  unixSock,    \* port == 0
  ctxLocker,   \* ctx.Value(address.Domain()) is a *FileLocker
  locker,      \* Listener.locker: "nil" or "lk"
  released,    \* number of FileLocker.Release() calls
  srvClosed,   \* http.Server.Close() was called
  cpc,         \* the caller of Close(): idle, or server (between lines 43 and 44)
  closes,      \* per Close() call begun, whether it found l.locker set
  closeRets,   \* number of Close() calls returned
  cfgHosts,    \* Config.Host
  cfgPath,     \* Config.Path
  listenRet,   \* what Listen returned: none (not called), or the error "nil"
  \* one entry per request
  rpc,         \* ServeHTTP: idle, host, path, accept, addr, conn, handler, wait, returned
  reqHost,     \* request.Host
  reqPath,     \* request.URL.Path
  reqRemote,   \* request.RemoteAddr
  reqFwd,      \* X-Forwarded-For
  wlog,        \* what reached the response writer, in order
  hcalls,      \* number of l.handler(conn) invocations
  connRemote,  \* the Connection's remote address
  connDone,    \* the done signal has fired
  bodyClosed,  \* request.Body.Close() was called
  closedIn,    \* where ServeHTTP was when the Connection was first closed ("" if open)
  calls,       \* the flushWriter.Write calls made on the Connection, in order of their start
  \* the reverse portal's picker
  pkind,       \* "none" (not constructed), "static" or "dynamic"
  given,       \* the Workers the picker was constructed with
  pool,        \* the picker's list of Workers
  wstate,      \* per Worker: "new" (no session yet), "active", "full", "closed"
  picks        \* the results of the PickAvailable calls, in order

lisVars == <<gpc, bound, unixSock, ctxLocker, locker, released, srvClosed, cpc, closes,
             closeRets, cfgHosts, cfgPath, listenRet>>
inVars == <<reqHost, reqPath, reqRemote, reqFwd>>
connVars == <<connDone, bodyClosed, calls>>
reqVars == <<rpc, inVars, wlog, hcalls, connRemote, connVars, closedIn>>
pickVars == <<pkind, given, pool, wstate, picks>>
vars == <<lisVars, reqVars, pickVars>>

Init ==
  /\ gpc = "none"
  /\ bound = "no"
  /\ unixSock = FALSE
  /\ ctxLocker = FALSE
  /\ locker = "nil"
  /\ released = 0
  /\ srvClosed = FALSE
  /\ cpc = "idle"
  /\ closes = <<>>
  /\ closeRets = 0
  /\ cfgHosts = {}
  /\ cfgPath = <<>>
  /\ listenRet = "none"
  /\ rpc = [r \in Reqs |-> "idle"]
  /\ reqHost = [r \in Reqs |-> ""]
  /\ reqPath = [r \in Reqs |-> <<>>]
  /\ reqRemote = [r \in Reqs |-> [host |-> "", port |-> -1]]
  /\ reqFwd = [r \in Reqs |-> <<>>]
  /\ wlog = [r \in Reqs |-> <<>>]
  /\ hcalls = [r \in Reqs |-> 0]
  /\ connRemote = [r \in Reqs |-> NoAddr]
  /\ connDone = [r \in Reqs |-> FALSE]
  /\ bodyClosed = [r \in Reqs |-> FALSE]
  /\ closedIn = [r \in Reqs |-> ""]
  /\ calls = [r \in Reqs |-> <<>>]
  /\ pkind = "none"
  /\ given = <<>>
  /\ pool = <<>>
  /\ wstate = [w \in Workers |-> "new"]
  /\ picks = <<>>

\* ------------------------------------------------------------------ Listen

\* Listener.Addr(): the local address Listen stored.
Addr == IF unixSock THEN [ip |-> "unix", port |-> 0] ELSE [ip |-> "tcp", port |-> 1]

\* Listen builds the Listener (locker unset) and the server, starts the startup
\* goroutine and returns (listener, nil) at once.
Listen(hs, p, ux, lk) ==
  /\ gpc = "none"
  /\ gpc' = "bind"
  /\ bound' = "no"
  /\ unixSock' = ux
  /\ ctxLocker' = lk
  /\ cfgHosts' = hs
  /\ cfgPath' = p
  /\ locker' = "nil"
  /\ listenRet' = "nil"
  /\ UNCHANGED <<released, srvClosed, cpc, closes, closeRets, reqVars, pickVars>>

GoBind_NoReturn(ok) ==
  /\ gpc = "bind"
  /\ bound' = IF ok THEN "ok" ELSE "err"
  /\ gpc' = IF unixSock THEN "record" ELSE "serve"
  /\ UNCHANGED <<unixSock, ctxLocker, locker, released, srvClosed, cpc, closes,
                 closeRets, cfgHosts, cfgPath, listenRet, reqVars, pickVars>>

\* The goroutine binds the socket: internet.ListenSystem succeeds or fails.
\* On failure it logs and returns; on success the Unix branch goes on to the
\* locker, the TCP branch to Serve.
GoBind(ok) ==
  /\ gpc = "bind"
  /\ bound' = IF ok THEN "ok" ELSE "err"
  /\ gpc' = IF ~ok THEN "failed" ELSE IF unixSock THEN "record" ELSE "serve"
  /\ UNCHANGED <<unixSock, ctxLocker, locker, released, srvClosed, cpc, closes,
                 closeRets, cfgHosts, cfgPath, listenRet, reqVars, pickVars>>

\* Unix branch after a successful bind: the locker found in the context, if
\* any, is stored on the Listener.
GoRecordLocker ==
  /\ gpc = "record"
  /\ locker' = IF ctxLocker THEN "lk" ELSE locker
  /\ gpc' = "serve"
  /\ UNCHANGED <<bound, unixSock, ctxLocker, released, srvClosed, cpc, closes, closeRets,
                 cfgHosts, cfgPath, listenRet, reqVars, pickVars>>

\* server.Serve / server.ServeTLS: a server already closed returns
\* ErrServerClosed at once, otherwise it serves.
GoServe ==
  /\ gpc = "serve"
  /\ gpc' = IF srvClosed THEN "exited" ELSE "serving"
  /\ UNCHANGED <<bound, unixSock, ctxLocker, locker, released, srvClosed, cpc, closes,
                 closeRets, cfgHosts, cfgPath, listenRet, reqVars, pickVars>>

\* Serve returns once the server has been closed; the goroutine logs and ends.
GoServeReturn ==
  /\ gpc = "serving"
  /\ srvClosed
  /\ gpc' = "exited"
  /\ UNCHANGED <<bound, unixSock, ctxLocker, locker, released, srvClosed, cpc, closes,
                 closeRets, cfgHosts, cfgPath, listenRet, reqVars, pickVars>>

\* ------------------------------------------------------------------ Close

\* Close(), first half: if l.locker is set, release it.
CloseRelease ==
  /\ gpc # "none"
  /\ cpc = "idle"
  /\ closes' = Append(closes, locker # "nil")
  /\ released' = IF locker # "nil" THEN released + 1 ELSE released
  /\ cpc' = "server"
  /\ UNCHANGED <<gpc, bound, unixSock, ctxLocker, locker, srvClosed, closeRets, cfgHosts,
                 cfgPath, listenRet, reqVars, pickVars>>

\* Close(), second half: return l.server.Close().
CloseServer ==
  /\ cpc = "server"
  /\ srvClosed' = TRUE
  /\ closeRets' = closeRets + 1
  /\ cpc' = "idle"
  /\ UNCHANGED <<gpc, bound, unixSock, ctxLocker, locker, released, closes, cfgHosts,
                 cfgPath, listenRet, reqVars, pickVars>>

\* ------------------------------------------------------------------ Config

\* Config.isValidHost: the host is one of the allowed hosts; an empty
\* allowed-host set matches any host.
isValidHost(hs, h) == hs = {} \/ h \in hs

\* Config.getNormalizedPath: "/" by default; a non-empty prefix is made to
\* start and to end with "/".
getNormalizedPath(p) ==
  IF p = <<>> THEN <<"/">>
  ELSE LET a == IF Head(p) = "/" THEN p ELSE <<"/">> \o p
       IN IF a[Len(a)] = "/" THEN a ELSE a \o <<"/">>

\* strings.HasPrefix(s, prefix)
HasPrefix(s, prefix) ==
  /\ Len(prefix) <= Len(s)
  /\ SubSeq(s, 1, Len(prefix)) = prefix

\* ------------------------------------------------------------------ response writer

\* One operation on the response writer of request r. call is the Write call
\* it belongs to (0: ServeHTTP itself). late and gone record whether the done
\* signal had fired, and whether ServeHTTP had returned, when it happened.
Entry(r, op, name, arg, call) ==
  [op |-> op, name |-> name, arg |-> arg, call |-> call, late |-> connDone[r],
   gone |-> rpc[r] = "returned"]

Reject_NoReturn(r) ==
  /\ wlog' = [wlog EXCEPT ![r] = Append(@, Entry(r, "WriteHeader", "", 404, 0))]
  /\ rpc' = [rpc EXCEPT ![r] = "accept"]

\* writer.WriteHeader(404); return
Reject(r) ==
  /\ wlog' = [wlog EXCEPT ![r] = Append(@, Entry(r, "WriteHeader", "", 404, 0))]
  /\ rpc' = [rpc EXCEPT ![r] = "returned"]

AcceptLog_NoFlush(r) ==
  <<Entry(r, "SetHeader", "Cache-Control: no-store", 0, 0),
    Entry(r, "WriteHeader", "", 200, 0)>>

\* writer.Header().Set("Cache-Control", "no-store"); writer.WriteHeader(200);
\* Flush(): the server's response writers implement http.Flusher.
AcceptLog(r) ==
  <<Entry(r, "SetHeader", "Cache-Control: no-store", 0, 0),
    Entry(r, "WriteHeader", "", 200, 0),
    Entry(r, "Flush", "", 0, 0)>>

\* ------------------------------------------------------------------ ServeHTTP

\* The server calls ServeHTTP with a request; host := request.Host.
ServeHTTP(r, h, p, ra, xf) ==
  /\ gpc = "serving"
  /\ ~srvClosed
  /\ rpc[r] = "idle"
  /\ rpc' = [rpc EXCEPT ![r] = "host"]
  /\ reqHost' = [reqHost EXCEPT ![r] = h]
  /\ reqPath' = [reqPath EXCEPT ![r] = p]
  /\ reqRemote' = [reqRemote EXCEPT ![r] = ra]
  /\ reqFwd' = [reqFwd EXCEPT ![r] = xf]
  /\ UNCHANGED <<pickVars, lisVars, wlog, hcalls, connRemote, connVars, closedIn>>

CheckHost_Skip(r) ==
  /\ rpc[r] = "host"
  /\ rpc' = [rpc EXCEPT ![r] = "path"]
  /\ UNCHANGED <<pickVars, lisVars, inVars, wlog, hcalls, connRemote, connVars, closedIn>>

\* if !l.config.isValidHost(host) { 404 }
CheckHost(r) ==
  /\ rpc[r] = "host"
  /\ IF ~isValidHost(cfgHosts, reqHost[r])
       THEN Reject(r)
       ELSE rpc' = [rpc EXCEPT ![r] = "path"] /\ UNCHANGED wlog
  /\ UNCHANGED <<pickVars, lisVars, inVars, hcalls, connRemote, connVars, closedIn>>

CheckPath_Swapped(r) ==
  /\ rpc[r] = "path"
  /\ IF ~HasPrefix(getNormalizedPath(cfgPath), reqPath[r])
       THEN Reject(r)
       ELSE rpc' = [rpc EXCEPT ![r] = "accept"] /\ UNCHANGED wlog
  /\ UNCHANGED <<pickVars, lisVars, inVars, hcalls, connRemote, connVars, closedIn>>

\* if !strings.HasPrefix(request.URL.Path, l.config.getNormalizedPath()) { 404 }
CheckPath(r) ==
  /\ rpc[r] = "path"
  /\ IF ~HasPrefix(reqPath[r], getNormalizedPath(cfgPath))
       THEN Reject(r)
       ELSE rpc' = [rpc EXCEPT ![r] = "accept"] /\ UNCHANGED wlog
  /\ UNCHANGED <<pickVars, lisVars, inVars, hcalls, connRemote, connVars, closedIn>>

\* Cache-Control, status 200, flush.
Accept(r) ==
  /\ rpc[r] = "accept"
  /\ wlog' = [wlog EXCEPT ![r] = @ \o AcceptLog(r)]
  /\ rpc' = [rpc EXCEPT ![r] = "addr"]
  /\ UNCHANGED <<pickVars, lisVars, inVars, hcalls, connRemote, connVars, closedIn>>

\* net.ParseDestination(request.RemoteAddr): host and port, or an error when
\* the text has no port part.
ParseDestination(ra) ==
  IF ra.port < 0 THEN [err |-> TRUE, ip |-> "", port |-> -1]
  ELSE [err |-> FALSE, ip |-> ra.host, port |-> ra.port]

\* An X-Forwarded-For entry that is an IP address (Family().IsIP()).
IsIP(a) == a \in {"192.0.2.7", "10.0.0.1"}

RemoteAddrOf_ParsedFirst(ra, xf) ==
  LET dest == ParseDestination(ra)
  IN IF ~dest.err THEN [ip |-> dest.ip, port |-> dest.port]
     ELSE IF Len(xf) > 0 /\ IsIP(xf[1]) THEN [ip |-> xf[1], port |-> 0] ELSE Addr

RemoteAddrOf_NoDefault(ra, xf) ==
  LET dest == ParseDestination(ra)
      first == IF dest.err THEN NoAddr ELSE [ip |-> dest.ip, port |-> dest.port]
  IN IF Len(xf) > 0 /\ IsIP(xf[1]) THEN [ip |-> xf[1], port |-> 0] ELSE first

\* remoteAddr: l.Addr(), replaced by the parsed RemoteAddr when it parses, and
\* then by the first X-Forwarded-For entry, port 0, when that is an IP.
RemoteAddrOf(ra, xf) ==
  LET dest == ParseDestination(ra)
      first == IF dest.err THEN Addr ELSE [ip |-> dest.ip, port |-> dest.port]
  IN IF Len(xf) > 0 /\ IsIP(xf[1]) THEN [ip |-> xf[1], port |-> 0] ELSE first

ResolveRemote(r) ==
  /\ rpc[r] = "addr"
  /\ connRemote' = [connRemote EXCEPT ![r] = RemoteAddrOf(reqRemote[r], reqFwd[r])]
  /\ rpc' = [rpc EXCEPT ![r] = "conn"]
  /\ UNCHANGED <<pickVars, lisVars, inVars, wlog, hcalls, connVars, closedIn>>

\* done := done.New(); conn := net.NewConnection(...); l.handler(conn)
InvokeHandler(r) ==
  /\ rpc[r] = "conn"
  /\ hcalls' = [hcalls EXCEPT ![r] = @ + 1]
  /\ rpc' = [rpc EXCEPT ![r] = "handler"]
  /\ UNCHANGED <<pickVars, lisVars, inVars, wlog, connRemote, connVars, closedIn>>

\* l.handler(conn) returns; whatever it started may go on using conn.
HandlerReturn(r) ==
  /\ rpc[r] = "handler"
  /\ rpc' = [rpc EXCEPT ![r] = "wait"]
  /\ UNCHANGED <<pickVars, lisVars, inVars, wlog, hcalls, connRemote, connVars, closedIn>>

Wait_NoBlock(r) ==
  /\ rpc[r] = "wait"
  /\ rpc' = [rpc EXCEPT ![r] = "returned"]
  /\ UNCHANGED <<pickVars, lisVars, inVars, wlog, hcalls, connRemote, connVars, closedIn>>

\* <-done.Wait(): ServeHTTP returns once the done signal has fired.
Wait(r) ==
  /\ rpc[r] = "wait"
  /\ connDone[r]
  /\ rpc' = [rpc EXCEPT ![r] = "returned"]
  /\ UNCHANGED <<pickVars, lisVars, inVars, wlog, hcalls, connRemote, connVars, closedIn>>

\* ------------------------------------------------------------------ Connection

\* The Connection of request r exists once the handler has been given it.
HasConn(r) == hcalls[r] > 0

ConnClose_All(r) ==
  /\ HasConn(r)
  /\ connDone' = [q \in Reqs |-> connDone[q] \/ q = r \/ HasConn(q)]
  /\ closedIn' = [closedIn EXCEPT ![r] = IF @ = "" THEN rpc[r] ELSE @]
  /\ UNCHANGED <<pickVars, lisVars, rpc, inVars, wlog, hcalls, connRemote, bodyClosed, calls>>

ConnClose_BodyOnly(r) ==
  /\ HasConn(r)
  /\ bodyClosed' = [bodyClosed EXCEPT ![r] = TRUE]
  /\ closedIn' = [closedIn EXCEPT ![r] = IF @ = "" THEN rpc[r] ELSE @]
  /\ UNCHANGED <<pickVars, lisVars, rpc, inVars, wlog, hcalls, connRemote, connDone, calls>>

\* conn.Close(): the close callback common.ChainedClosable{done, request.Body}
\* closes its two members one after the other. This is the first: the done
\* signal fires. ServeHTTP and Write calls can run before the second.
ConnClose(r) ==
  /\ HasConn(r)
  /\ connDone' = [connDone EXCEPT ![r] = TRUE]
  /\ closedIn' = [closedIn EXCEPT ![r] = IF @ = "" THEN rpc[r] ELSE @]
  /\ UNCHANGED <<pickVars, lisVars, rpc, inVars, wlog, hcalls, connRemote, bodyClosed, calls>>

\* The second member of the close callback: request.Body.Close(), called once
\* the done signal has been fired.
ConnCloseBody(r) ==
  /\ HasConn(r)
  /\ connDone[r]
  /\ ~bodyClosed[r]
  /\ bodyClosed' = [bodyClosed EXCEPT ![r] = TRUE]
  /\ UNCHANGED <<pickVars, lisVars, rpc, inVars, wlog, hcalls, connRemote, connDone, calls,
                 closedIn>>

\* ------------------------------------------------------------------ flushWriter

\* The Write call writer w is in (0: none).
Current(r, w) ==
  LET ks == {k \in 1..Len(calls[r]) : calls[r][k].w = w /\ calls[r][k].at # "ret"}
  IN IF ks = {} THEN 0 ELSE CHOOSE k \in ks : TRUE

WriteCheck_NoDoneCheck(r, w, n) ==
  /\ HasConn(r)
  /\ Current(r, w) = 0
  /\ calls' = [calls EXCEPT ![r] = Append(@,
       [w |-> w, len |-> n, begunDone |-> connDone[r], at |-> "write", n |-> 0,
        err |-> "nil"])]
  /\ UNCHANGED <<pickVars, lisVars, rpc, inVars, wlog, hcalls, connRemote, connDone, bodyClosed,
                 closedIn>>

\* Write begins: if fw.d.Done() { return 0, io.ErrClosedPipe }
WriteCheck(r, w, n) ==
  /\ HasConn(r)
  /\ Current(r, w) = 0
  /\ calls' = [calls EXCEPT ![r] = Append(@,
       IF connDone[r]
         THEN [w |-> w, len |-> n, begunDone |-> TRUE, at |-> "ret", n |-> 0,
               err |-> "io.ErrClosedPipe"]
         ELSE [w |-> w, len |-> n, begunDone |-> FALSE, at |-> "write", n |-> 0,
               err |-> "nil"])]
  /\ UNCHANGED <<pickVars, lisVars, rpc, inVars, wlog, hcalls, connRemote, connDone, bodyClosed,
                 closedIn>>

\* n, err = fw.w.Write(p)
WriteData(r, w) ==
  LET k == Current(r, w) IN
  /\ k # 0
  /\ calls[r][k].at = "write"
  /\ wlog' = [wlog EXCEPT ![r] = Append(@, Entry(r, "Write", "", calls[r][k].len, k))]
  /\ calls' = [calls EXCEPT ![r][k].at = "flush", ![r][k].n = calls[r][k].len]
  /\ UNCHANGED <<pickVars, lisVars, rpc, inVars, hcalls, connRemote, connDone, bodyClosed, closedIn>>

\* f.Flush(); return
WriteFlush(r, w) ==
  LET k == Current(r, w) IN
  /\ k # 0
  /\ calls[r][k].at = "flush"
  /\ wlog' = [wlog EXCEPT ![r] = Append(@, Entry(r, "Flush", "", 0, k))]
  /\ calls' = [calls EXCEPT ![r][k].at = "ret"]
  /\ UNCHANGED <<pickVars, lisVars, rpc, inVars, hcalls, connRemote, connDone, bodyClosed, closedIn>>

\* ------------------------------------------------------------------ picker

\* The lists of distinct Workers a static picker can be constructed with.
WorkerLists ==
  {l \in UNION {[1..n -> Workers] : n \in 0..MaxWorkers} :
     \A i, j \in 1..Len(l) : i # j => l[i] # l[j]}

\* Worker.isAvailable: the session is open and has spare capacity.
IsAvailable(w) == wstate[w] = "active"

\* The Workers of list l that are available.
Available(l) == {l[i] : i \in {j \in 1..Len(l) : IsAvailable(l[j])}}

\* reverse.NewStaticMuxPicker(workers...): a picker over a fixed list of
\* Workers with a session, possibly empty.
NewStaticMuxPicker(l) ==
  /\ pkind = "none"
  /\ pkind' = "static"
  /\ given' = l
  /\ pool' = l
  /\ wstate' = [w \in Workers |-> IF \E i \in 1..Len(l) : l[i] = w THEN "active" ELSE wstate[w]]
  /\ UNCHANGED <<picks, lisVars, reqVars>>

\* The dynamic picker starts with no Worker.
NewDynamicMuxPicker ==
  /\ pkind = "none"
  /\ pkind' = "dynamic"
  /\ given' = <<>>
  /\ pool' = <<>>
  /\ UNCHANGED <<wstate, picks, lisVars, reqVars>>

\* Dynamic picker: a bridge session has authenticated and its Worker is added.
Register(w) ==
  /\ pkind = "dynamic"
  /\ wstate[w] = "new"
  /\ wstate' = [wstate EXCEPT ![w] = "active"]
  /\ pool' = Append(pool, w)
  /\ UNCHANGED <<pkind, given, picks, lisVars, reqVars>>

\* A Worker's session runs out of stream capacity, or gets some back.
WorkerCapacity(w) ==
  /\ wstate[w] \in {"active", "full"}
  /\ wstate' = [wstate EXCEPT ![w] = IF @ = "active" THEN "full" ELSE "active"]
  /\ UNCHANGED <<pkind, given, pool, picks, lisVars, reqVars>>

\* A Worker's session closes: closed is terminal.
WorkerClose(w) ==
  /\ wstate[w] \in {"active", "full"}
  /\ wstate' = [wstate EXCEPT ![w] = "closed"]
  /\ UNCHANGED <<pkind, given, pool, picks, lisVars, reqVars>>

\* The list l without its closed Workers among the first n.
Evict(l, n) ==
  SelectSeq([i \in 1..Len(l) |-> IF i <= n /\ wstate[l[i]] = "closed" THEN 0 ELSE l[i]],
            LAMBDA w : w # 0)

PickFrom_FirstInList(l) ==
  IF l = <<>> THEN [worker |-> 0, err |-> TRUE, pool |-> l]
  ELSE [worker |-> l[1], err |-> FALSE, pool |-> l]

PickFrom_Placeholder(l) ==
  LET idx == {i \in 1..Len(l) : IsAvailable(l[i])}
  IN IF idx = {} THEN [worker |-> 1, err |-> FALSE, pool |-> Evict(l, Len(l))]
     ELSE LET i == CHOOSE i \in idx : \A j \in idx : i <= j
          IN [worker |-> l[i], err |-> FALSE, pool |-> Evict(l, i)]

\* PickAvailable over the list l: go through it in order, drop the Workers
\* seen closed, return the first available one; with none, an error and no
\* Worker (0).
PickFrom(l) ==
  LET idx == {i \in 1..Len(l) : IsAvailable(l[i])}
  IN IF idx = {} THEN [worker |-> 0, err |-> TRUE, pool |-> Evict(l, Len(l))]
     ELSE LET i == CHOOSE i \in idx : \A j \in idx : i <= j
          IN [worker |-> l[i], err |-> FALSE, pool |-> Evict(l, i)]

\* picker.PickAvailable(). Each result is kept with the Workers of the list
\* that were available at that moment.
PickAvailable ==
  /\ pkind # "none"
  /\ LET res == PickFrom(pool) IN
       /\ pool' = res.pool
       /\ picks' = Append(picks, [worker |-> res.worker, err |-> res.err,
                                  avail |-> Available(pool)])
  /\ UNCHANGED <<pkind, given, wstate, lisVars, reqVars>>

\* Dynamic picker: the periodic sweep drops the closed Workers.
Sweep ==
  /\ pkind = "dynamic"
  /\ pool' = Evict(pool, Len(pool))
  /\ UNCHANGED <<pkind, given, wstate, picks, lisVars, reqVars>>

\* ------------------------------------------------------------------ specifications

\* Listen and the startup goroutine up to Serve.
StartSteps(HS, CP, UX, LK) ==
  \/ \E hs \in HS, p \in CP, ux \in UX, lk \in LK : Listen(hs, p, ux, lk)
  \/ \E ok \in BOOLEAN : GoBind(ok)
  \/ GoRecordLocker
  \/ GoServe

\* At most c calls of Close(), and Serve returning after them.
CloseSteps(c) ==
  \/ Len(closes) < c /\ CloseRelease
  \/ CloseServer
  \/ GoServeReturn

\* ServeHTTP for the requests R, up to the handler's return and the wait.
RequestSteps(R, H, P, RA, XF) ==
  \/ \E r \in R, h \in H, p \in P, ra \in RA, xf \in XF : ServeHTTP(r, h, p, ra, xf)
  \/ \E r \in R : CheckHost(r)
  \/ \E r \in R : CheckPath(r)
  \/ \E r \in R : Accept(r)
  \/ \E r \in R : ResolveRemote(r)
  \/ \E r \in R : InvokeHandler(r)
  \/ \E r \in R : HandlerReturn(r)
  \/ \E r \in R : Wait(r)

\* The handler side closes the Connections of R.
CloseConnSteps(R) ==
  \/ \E r \in R : ConnClose(r)
  \/ \E r \in R : ConnCloseBody(r)

\* The handler side writes to the Connections of R: at most c Write calls
\* each, from the goroutines W.
WriteSteps(R, W, c) ==
  \/ \E r \in R, w \in W, n \in Lens : Len(calls[r]) < c /\ WriteCheck(r, w, n)
  \/ \E r \in R, w \in W : WriteData(r, w)
  \/ \E r \in R, w \in W : WriteFlush(r, w)

TcpPeer == [host |-> "10.0.0.1", port |-> 4000]

\* Host and path policy: one request, every configuration, host and path, and
\* one Close() at any moment.
Next ==
  \/ StartSteps(HostSets, CfgPaths, BOOLEAN, {FALSE})
  \/ CloseSteps(1)
  \/ RequestSteps({1}, Hosts, ReqPaths, {TcpPeer}, {<<>>})
  \/ CloseConnSteps({1})
  \/ WriteSteps({1}, {1}, MaxCalls)

Spec == Init /\ [][Next]_vars

\* One Connection written to by several goroutines and closed at any moment.
\* Close() of the Listener shares no state with a Connection and is left out.
NextConn ==
  \/ StartSteps({{}}, {<<>>}, {TRUE}, {FALSE})
  \/ RequestSteps({1}, {"example.com"}, {<<"/">>}, {TcpPeer}, {<<>>})
  \/ CloseConnSteps({1})
  \/ WriteSteps({1}, Writers, MaxCalls)

SpecConn == Init /\ [][NextConn]_vars

\* Several requests in flight, each with its own Connection; the handlers of
\* the first two write, one writer and one Write call per Connection.
NextMulti ==
  \/ StartSteps({{}}, {<<>>}, {TRUE}, {FALSE})
  \/ RequestSteps(Reqs, {"example.com"}, {<<"/">>}, {TcpPeer}, {<<>>})
  \/ CloseConnSteps(Reqs)
  \/ WriteSteps({r \in Reqs : r <= 2}, {1}, 1)

SpecMulti == Init /\ [][NextMulti]_vars

\* The remote address of the Connection: one accepted request, TCP or Unix
\* socket, every RemoteAddr and X-Forwarded-For header.
NextAddr ==
  \/ StartSteps({{}}, {<<>>}, BOOLEAN, {FALSE})
  \/ RequestSteps({1}, {"example.com"}, {<<"/">>}, RemoteAddrs, Forwardeds)
  \/ CloseConnSteps({1})

SpecAddr == Init /\ [][NextAddr]_vars

\* The picker of a reverse portal: static over any list of Workers, or
\* dynamic; Workers register, fill up and close at any moment; at most
\* MaxPicks picks.
NextPick ==
  \/ \E l \in WorkerLists : NewStaticMuxPicker(l)
  \/ NewDynamicMuxPicker
  \/ \E w \in Workers : Register(w)
  \/ \E w \in Workers : WorkerCapacity(w)
  \/ \E w \in Workers : WorkerClose(w)
  \/ Len(picks) < MaxPicks /\ PickAvailable
  \/ Sweep

SpecPick == Init /\ [][NextPick]_vars

\* The life of the Listener: TCP or Unix socket, with or without a file lock
\* in the context, the bind succeeding or failing, Close() called up to
\* MaxCloses times at any moment, a request in flight.
NextLife ==
  \/ StartSteps({{}}, {<<>>}, BOOLEAN, BOOLEAN)
  \/ CloseSteps(MaxCloses)
  \/ RequestSteps({1}, {"example.com"}, {<<"/">>}, {TcpPeer}, {<<>>})
  \/ CloseConnSteps({1})
  \/ WriteSteps({1}, {1}, 1)

SpecLife == Init /\ [][NextLife]_vars

\* Requests in flight while the Listener is closed; writes, which neither fire
\* nor wait for the done signal, are left out. The steps the program takes by
\* itself are weakly fair: the goroutines of ServeHTTP, of the startup and of
\* a Close() under way are scheduled. What the callers decide is not: a new
\* request, a new Close(), and what the handler side does (returning, closing
\* the Connection).
NextFair ==
  \/ StartSteps({{}}, {<<>>}, {TRUE}, {TRUE})
  \/ CloseSteps(1)
  \/ RequestSteps(Reqs, {"example.com"}, {<<"/">>}, {TcpPeer}, {<<>>})
  \/ CloseConnSteps(Reqs)

Fairness ==
  /\ WF_vars(GoRecordLocker)
  /\ WF_vars(GoServe)
  /\ WF_vars(GoServeReturn)
  /\ WF_vars(CloseServer)
  /\ \A r \in Reqs :
       /\ WF_vars(CheckHost(r))
       /\ WF_vars(CheckPath(r))
       /\ WF_vars(Accept(r))
       /\ WF_vars(ResolveRemote(r))
       /\ WF_vars(InvokeHandler(r))
       /\ WF_vars(Wait(r))
       /\ WF_vars(ConnCloseBody(r))

FairSpec == Init /\ [][NextFair]_vars /\ Fairness

\* ------------------------------------------------------------------ observations

\* The status codes written for request r, in order.
StatusCodes(r) ==
  LET ws == SelectSeq(wlog[r], LAMBDA e : e.op = "WriteHeader")
  IN [i \in 1..Len(ws) |-> ws[i].arg]

\* The Cache-Control: no-store header was set on the response of r.
NoStoreSet(r) ==
  \E i \in 1..Len(wlog[r]) :
    wlog[r][i].op = "SetHeader" /\ wlog[r][i].name = "Cache-Control: no-store"

Started(r) == rpc[r] # "idle"
Returned(r) == rpc[r] = "returned"
HostAllowed(r) == cfgHosts = {} \/ reqHost[r] \in cfgHosts
PathMatches(r) == HasPrefix(reqPath[r], getNormalizedPath(cfgPath))

\* ------------------------------------------------------------------ claims

\* C1: a request whose Host is not in a non-empty allowed-host set gets status
\* 404 and nothing else: the handler is never invoked for it, no Connection is
\* made and no Cache-Control header is set.
C1_HostRejected ==
  \A r \in Reqs :
    (Started(r) /\ cfgHosts # {} /\ reqHost[r] \notin cfgHosts) =>
      /\ hcalls[r] = 0
      /\ ~NoStoreSet(r)
      /\ rpc[r] \in {"host", "returned"}
      /\ Returned(r) => StatusCodes(r) = <<404>>

\* A request with a foreign Host, and a path that would pass, returned with 404.
C1_Witness ==
  \E r \in Reqs :
    /\ Returned(r) /\ cfgHosts # {} /\ reqHost[r] \notin cfgHosts
    /\ PathMatches(r) /\ StatusCodes(r) = <<404>>

\* C2: a request whose path does not start with the normalized prefix gets
\* status 404 and the handler is never invoked, whatever its Host.
C2_PathRejected ==
  \A r \in Reqs :
    (Started(r) /\ ~PathMatches(r)) =>
      /\ hcalls[r] = 0
      /\ rpc[r] \in {"host", "path", "returned"}
      /\ Returned(r) => StatusCodes(r) = <<404>>

\* A request with an allowed Host and a path outside the prefix returned with 404.
C2_Witness ==
  \E r \in Reqs :
    /\ Returned(r) /\ HostAllowed(r) /\ cfgHosts # {} /\ ~PathMatches(r)
    /\ StatusCodes(r) = <<404>>

\* C3: a request with an allowed Host (or an empty allowed-host set) and a path
\* under the prefix is accepted: 200 with Cache-Control: no-store, and the
\* handler is invoked exactly once; no request gets more than one status, and
\* a returned request has exactly one.
C3_Accepted ==
  \A r \in Reqs :
    /\ Len(StatusCodes(r)) <= 1
    /\ hcalls[r] <= 1
    /\ Returned(r) => Len(StatusCodes(r)) = 1
    /\ (Started(r) /\ HostAllowed(r) /\ PathMatches(r)) =>
         /\ rpc[r] \in {"addr", "conn", "handler", "wait", "returned"} =>
              StatusCodes(r) = <<200>> /\ NoStoreSet(r)
         /\ rpc[r] \in {"handler", "wait", "returned"} => hcalls[r] = 1

\* An accepted request under an empty allowed-host set has returned.
C3_Witness ==
  \E r \in Reqs :
    /\ Returned(r) /\ cfgHosts = {} /\ PathMatches(r) /\ cfgPath # <<>>
    /\ StatusCodes(r) = <<200>> /\ NoStoreSet(r) /\ hcalls[r] = 1

\* C4: for an accepted request the response writer sees, in this order, the
\* Cache-Control header, status 200 and a flush, all before the handler is
\* invoked; every body write through the Connection comes after that flush.
C4_HeadersFirst ==
  \A r \in Reqs :
    /\ hcalls[r] > 0 =>
         /\ Len(wlog[r]) >= 3
         /\ wlog[r][1].op = "SetHeader"
         /\ wlog[r][2].op = "WriteHeader" /\ wlog[r][2].arg = 200
         /\ wlog[r][3].op = "Flush" /\ wlog[r][3].call = 0
    /\ \A i \in 1..Len(wlog[r]) :
         wlog[r][i].op = "Write" =>
           \E j \in 1..(i - 1) :
             /\ wlog[r][j].op = "Flush" /\ wlog[r][j].call = 0
             /\ \E k \in 1..(j - 1) : wlog[r][k].op = "WriteHeader" /\ wlog[r][k].arg = 200

\* A body write has reached the response writer of an accepted request.
C4_Witness ==
  \E r \in Reqs : \E i \in 1..Len(wlog[r]) : wlog[r][i].op = "Write" /\ i = 4

\* C6: ServeHTTP does not return from an accepted request before the done
\* signal of its Connection has fired; in particular the handler's return
\* alone does not let it return.
C6_ReturnOnlyWhenDone ==
  \A r \in Reqs : (Returned(r) /\ hcalls[r] > 0) => connDone[r]

\* The handler returned with the Connection open, ServeHTTP waited, and it
\* returned after the Connection was closed.
C6_Witness ==
  \E r \in Reqs : Returned(r) /\ hcalls[r] > 0 /\ closedIn[r] = "wait"

\* C5: a Write call that begins after the done signal has fired returns 0 and
\* io.ErrClosedPipe and neither writes to nor flushes the response writer,
\* every time.
C5_WriteAfterDone ==
  \A r \in Reqs : \A k \in 1..Len(calls[r]) :
    calls[r][k].begunDone =>
      /\ calls[r][k].at = "ret"
      /\ calls[r][k].n = 0
      /\ calls[r][k].err = "io.ErrClosedPipe"
      /\ \A i \in 1..Len(wlog[r]) : wlog[r][i].call # k

\* Two Write calls were made, one after the other, after the done signal had
\* fired, and both have returned.
C5_Witness ==
  \E r \in Reqs : \E j, k \in 1..Len(calls[r]) :
    /\ j < k /\ calls[r][j].begunDone /\ calls[r][k].begunDone
    /\ calls[r][j].at = "ret" /\ calls[r][k].at = "ret"

\* C7: closing the Connection fires its done signal and then closes the
\* request body; once it is closed and the handler has returned, ServeHTTP
\* returns, and it can do so at once when the close came before the handler's
\* return.
C7_CloseLetsServeReturn ==
  /\ [](\A r \in Reqs : closedIn[r] # "" => connDone[r])
  /\ [](\A r \in Reqs : bodyClosed[r] => closedIn[r] # "")
  /\ \A r \in Reqs : (closedIn[r] # "") ~> bodyClosed[r]
  /\ [](\A r \in Reqs : (rpc[r] = "wait" /\ closedIn[r] = "handler") => ENABLED Wait(r))
  /\ \A r \in Reqs : (closedIn[r] # "" /\ rpc[r] = "wait") ~> Returned(r)

\* ServeHTTP returned from a request whose Connection was closed while the
\* handler was running.
C7_Witness ==
  \E r \in Reqs : Returned(r) /\ closedIn[r] = "handler" /\ bodyClosed[r]

\* C8: a Listener that holds a file lock when it is closed has the lock
\* released exactly once, however many times Close() is called.
C8_ReleasedOnce ==
  (Len(closes) >= 1 /\ closes[1] /\ cpc = "idle") => released = 1

\* C9: with a lock supplied for the socket path of a Unix-socket Listen and
\* the bind successful, the lock is on the Listener and a completed Close()
\* has released it, whichever way Close() and the startup goroutine interleave.
C9_LockReleasedByClose ==
  (unixSock /\ ctxLocker /\ gpc \in {"serve", "serving", "exited"} /\ closeRets >= 1) =>
    locker = "lk" /\ released >= 1

\* C10: after Close() every ServeHTTP blocked waiting for the done signal of
\* its Connection eventually returns.
C10_CloseAbortsExchanges ==
  \A r \in Reqs : (closeRets >= 1 /\ rpc[r] = "wait") ~> Returned(r)

\* C11: the writes of one Connection reach the response writer one call at a
\* time, each written and flushed before anything of another call, also when
\* several goroutines call Write at once: every Write entry is followed at
\* once by the flush of the same call.
C11_WritesNotInterleaved ==
  \A r \in Reqs : \A i \in 1..Len(wlog[r]) :
    (wlog[r][i].op = "Write" /\ i < Len(wlog[r])) =>
      wlog[r][i + 1].op = "Flush" /\ wlog[r][i + 1].call = wlog[r][i].call

\* C19: whatever the interleaving of Write calls with the close of their
\* Connection, nothing is written to or flushed on the response writer after
\* the done signal has fired, nor after ServeHTTP has returned.
C19_NoWriteAfterDone ==
  \A r \in Reqs : \A i \in 1..Len(wlog[r]) :
    wlog[r][i].call # 0 => ~wlog[r][i].late /\ ~wlog[r][i].gone

\* A Write call on the Connection of r failed with io.ErrClosedPipe.
WriteFailed(r) ==
  \E k \in 1..Len(calls[r]) : calls[r][k].err = "io.ErrClosedPipe"

\* C12: firing the done signal of one Connection touches that Connection
\* alone: the step that closes A leaves every other Connection's done signal,
\* request body, Write calls, response and ServeHTTP as they were; a write
\* fails, and a ServeHTTP returns from an accepted request, only on a
\* Connection whose own signal has fired.
C12_CloseIsLocal ==
  /\ [][\A a \in Reqs :
          (~connDone[a] /\ connDone'[a]) =>
            \A b \in Reqs \ {a} :
              /\ connDone'[b] = connDone[b]
              /\ bodyClosed'[b] = bodyClosed[b]
              /\ calls'[b] = calls[b]
              /\ wlog'[b] = wlog[b]
              /\ rpc'[b] = rpc[b]]_vars
  /\ [](\A b \in Reqs : WriteFailed(b) => connDone[b])
  /\ [](\A b \in Reqs : (Returned(b) /\ hcalls[b] > 0) => connDone[b])
  /\ [](\A b \in Reqs : (rpc[b] = "wait" /\ ~connDone[b]) => ~ENABLED Wait(b))

\* Connection 1 is closed, a write on it failed and its ServeHTTP returned,
\* while Connection 2 is open, a write on it succeeded and its ServeHTTP is
\* still blocked.
C12_Witness ==
  /\ MaxReqs >= 2
  /\ connDone[1] /\ WriteFailed(1) /\ Returned(1)
  /\ ~connDone[2] /\ rpc[2] = "wait"
  /\ \E k \in 1..Len(calls[2]) :
       calls[2][k].at = "ret" /\ calls[2][k].err = "nil" /\ calls[2][k].n > 0

\* C13: Listen returns its Listener with a nil error while the bind is still
\* to come; when the bind fails the startup goroutine ends without serving
\* and stays ended, no request is served and the handler is never invoked
\* for that Listener; a Close() on it can always complete.
C13_BindFailure ==
  /\ [](gpc # "none" => listenRet = "nil")
  /\ [](bound = "err" =>
          /\ gpc = "failed"
          /\ \A r \in Reqs : rpc[r] = "idle" /\ hcalls[r] = 0)
  /\ [][bound = "err" => (bound' = "err" /\ gpc' = gpc)]_vars
  /\ [](cpc = "server" => ENABLED CloseServer)

\* The bind failed, and a Close() called afterwards has returned.
C13_Witness ==
  bound = "err" /\ gpc = "failed" /\ listenRet = "nil" /\ closeRets >= 1 /\ cpc = "idle"

\* C14: a request whose path is the configured prefix as written, without a
\* trailing slash (path=/tunnel, request /tunnel), and whose Host is allowed
\* is accepted: status 200 and the handler invoked.
C14_PrefixItselfAccepted ==
  \A r \in Reqs :
    (/\ Returned(r) /\ HostAllowed(r)
     /\ cfgPath # <<>> /\ Head(cfgPath) = "/" /\ cfgPath[Len(cfgPath)] # "/"
     /\ reqPath[r] = cfgPath) =>
      StatusCodes(r) = <<200>> /\ hcalls[r] = 1

\* C15: on a static picker constructed with no Worker, every PickAvailable,
\* the first and all later ones, returns an error and no Worker, and the
\* picker never gains a Worker.
C15_EmptyStaticPicker ==
  (pkind = "static" /\ given = <<>>) =>
    /\ pool = <<>>
    /\ \A i \in 1..Len(picks) : picks[i].err /\ picks[i].worker = 0

\* MaxPicks picks were made on an empty static picker.
C15_Witness ==
  pkind = "static" /\ given = <<>> /\ Len(picks) >= 2 /\ picks[2].err

\* C16: a PickAvailable on a list with exactly one available Worker returns
\* that Worker, and one on a list with no available Worker returns an error
\* and no Worker. Once every Worker of a static picker is closed there is never
\* an available one again; on a dynamic picker whose Workers are all closed
\* only the registration of a new Worker makes one available again.
C16_PickTracksAvailability ==
  /\ [](\A i \in 1..Len(picks) :
          /\ Cardinality(picks[i].avail) = 1 =>
               ~picks[i].err /\ picks[i].worker \in picks[i].avail
          /\ picks[i].avail = {} => picks[i].err /\ picks[i].worker = 0)
  /\ [][(pkind = "static" /\ \A i \in 1..Len(given) : wstate[given[i]] = "closed")
          => Available(pool)' = {}]_vars
  /\ [][(pkind = "dynamic" /\ (\A i \in 1..Len(pool) : wstate[pool[i]] = "closed")
           /\ Available(pool)' # {})
          => \E w \in Workers : wstate[w] = "new" /\ wstate'[w] = "active"]_vars

\* A dynamic picker returned its only Worker, failed once that Worker had
\* closed, and returned the newly registered Worker after that.
C16_Witness ==
  /\ pkind = "dynamic"
  /\ Len(picks) >= 3
  /\ ~picks[1].err /\ picks[1].avail = {picks[1].worker}
  /\ wstate[picks[1].worker] = "closed"
  /\ picks[2].err /\ picks[2].worker = 0
  /\ ~picks[3].err /\ picks[3].worker # picks[1].worker /\ picks[3].avail = {picks[3].worker}

\* The first X-Forwarded-For entry of request r is an IP address.
FirstForwardedIsIP(r) == Len(reqFwd[r]) > 0 /\ IsIP(reqFwd[r][1])

\* C17: the Connection of an accepted request has as remote address the first
\* X-Forwarded-For entry with port 0 when that entry is an IP, whether or not
\* request.RemoteAddr parsed; otherwise, when request.RemoteAddr parses, the
\* parsed IP and port.
C17_RemoteAddrPriority ==
  \A r \in Reqs : hcalls[r] > 0 =>
    /\ FirstForwardedIsIP(r) => connRemote[r] = [ip |-> reqFwd[r][1], port |-> 0]
    /\ (~FirstForwardedIsIP(r) /\ ~ParseDestination(reqRemote[r]).err) =>
         connRemote[r] = [ip |-> ParseDestination(reqRemote[r]).ip,
                          port |-> ParseDestination(reqRemote[r]).port]

\* The handler got a Connection for a request whose RemoteAddr parsed and whose
\* X-Forwarded-For starts with an IP: the header won.
C17_Witness ==
  /\ hcalls[1] > 0
  /\ ~ParseDestination(reqRemote[1]).err
  /\ FirstForwardedIsIP(1)
  /\ connRemote[1] = [ip |-> "192.0.2.7", port |-> 0]
  /\ connRemote[1].ip # ParseDestination(reqRemote[1]).ip

\* Request r has a RemoteAddr that does not parse and no X-Forwarded-For entry
\* that is an IP.
NoRemoteSource(r) ==
  /\ ParseDestination(reqRemote[r]).err
  /\ \A i \in 1..Len(reqFwd[r]) : ~IsIP(reqFwd[r][i])

\* C18 as stated: with a RemoteAddr that does not parse and no forwarded-for
\* entry that is an IP, the Connection's remote address is undetermined, not
\* the Listener's own local address.
C18_RemoteUndetermined ==
  \A r \in Reqs : (hcalls[r] > 0 /\ NoRemoteSource(r)) =>
    connRemote[r] = NoAddr /\ connRemote[r] # Addr

\* C18, amended: with a RemoteAddr that does not parse and no forwarded-for
\* entry that is an IP, the Connection's remote address is the Listener's own
\* local address, l.Addr().
C18_RemoteDefaultsToListenerAddr ==
  \A r \in Reqs : (hcalls[r] > 0 /\ NoRemoteSource(r)) => connRemote[r] = Addr

\* The handler got a Connection for a request with an unparsable RemoteAddr and
\* an X-Forwarded-For of "unknown".
C18_Witness ==
  /\ hcalls[1] > 0
  /\ NoRemoteSource(1)
  /\ reqFwd[1] = <<"unknown">>
  /\ connRemote[1] = Addr

====
